---- MODULE Spec2Model ----
(***************************************************************************)
(* Model of the concurrent virtual arena allocator of src/src/main.cpp.    *)
(*                                                                         *)
(* The Arena's fields are the shared state; every caller thread executes   *)
(* arena_concurrent_alloc one shared-memory access at a time (fetch_add,   *)
(* fetch_sub, load, VirtualAlloc, compare_exchange_weak), so that every    *)
(* interleaving the hardware allows is a behaviour of the model.           *)
(* Offsets are byte offsets into Arena::buffer.  The values reached within *)
(* the bounds stay far below 2^64, so size_t arithmetic never wraps here.  *)
(***************************************************************************)
EXTENDS Integers, FiniteSets, Sequences, TLC

\* ------------------------------------------------------------------------
\* Program constants
\* ------------------------------------------------------------------------
PAGE_SIZE == 4096

DEFAULT_ALIGNMENT == 8

\* main() starts t1, t2, t3.
NumThreads == 3

\* ------------------------------------------------------------------------
\* Bounds of the model
\* ------------------------------------------------------------------------
\* Calls of arena_concurrent_alloc issued in one behaviour (all threads).
MaxCalls == 4

\* Calls of arena_clear in one behaviour.
MaxClears == 1

\* Calls of arena_init on the Arena after the one main() makes.
MaxInits == 1

Threads == 1..NumThreads

\* Arena lengths passed to arena_init, each with the (size, align) arguments
\* its callers draw from:
\*   SmallLength  shorter than a page and no multiple of the alignment;
\*                callers mix alignments.
\*   RaceLength   two alignment units; some callers ask for more than the arena.
\*   WholeLength  callers ask for the whole arena.
\*   PagedLength  two pages plus a few bytes; callers ask for pages.
\*   ScenarioLength  one page; callers ask for 100 and 50 bytes.
\*   LiveLength   three pages; every caller asks for one page.
SmallLength == DEFAULT_ALIGNMENT + (DEFAULT_ALIGNMENT \div 2)

RaceLength == 2 * DEFAULT_ALIGNMENT

WholeLength == 2 * DEFAULT_ALIGNMENT + (DEFAULT_ALIGNMENT \div 2)

PagedLength == 2 * PAGE_SIZE + (DEFAULT_ALIGNMENT \div 2)

ScenarioLength == PAGE_SIZE

LiveLength == 3 * PAGE_SIZE

Lengths ==
    { SmallLength, RaceLength, WholeLength, PagedLength, ScenarioLength,
      LiveLength }

Requests(len) ==
    CASE len = SmallLength ->
            { <<4, 1>>, <<4, DEFAULT_ALIGNMENT>> }
      [] len = RaceLength ->
            { <<4, DEFAULT_ALIGNMENT>>, <<len + 4, DEFAULT_ALIGNMENT>> }
      [] len = WholeLength ->
            { <<4, DEFAULT_ALIGNMENT>>, <<len, DEFAULT_ALIGNMENT>> }
      [] len = LiveLength ->
            { <<PAGE_SIZE, DEFAULT_ALIGNMENT>> }
      [] len = ScenarioLength ->
            { <<100, DEFAULT_ALIGNMENT>>, <<50, DEFAULT_ALIGNMENT>> }
      [] OTHER ->
            { <<4, DEFAULT_ALIGNMENT>>, <<PAGE_SIZE, DEFAULT_ALIGNMENT>> }

\* Values the never-initialised Arena::committed can hold after arena_init:
\* zero (a zeroing build or zeroed heap memory) or a stale nonzero word.
IndeterminateCommitted == {0, PAGE_SIZE}

\* ------------------------------------------------------------------------
\* Bit arithmetic of size_t
\* ------------------------------------------------------------------------
RECURSIVE BitAnd(_, _)
BitAnd(x, y) ==
    IF x = 0 \/ y = 0 THEN 0
    ELSE (x % 2) * (y % 2) + 2 * BitAnd(x \div 2, y \div 2)

\* x & ~m : the bits of x that are not in m (x minus the bits it shares with m).
AndNot(x, m) == x - BitAnd(x, m)

is_power_of_two(x) == BitAnd(x, x - 1) = 0

align_forward_round_down(size, align) == AndNot(size, align - 1)

align_forward(size, align) == AndNot(size + align - 1, align - 1)

commit_size_round_down(committed_v, allocated) ==
    AndNot(allocated - committed_v, PAGE_SIZE - 1)

commit_size(committed_v, allocated) ==
    AndNot((allocated - committed_v) + PAGE_SIZE - 1, PAGE_SIZE - 1)

\* ------------------------------------------------------------------------
\* State
\* ------------------------------------------------------------------------
VARIABLES
    length,        \* Arena::length
    curr_offset,   \* Arena::curr_offset (atomic)
    committed,     \* Arena::committed (atomic)
    backed,        \* pages of Arena::buffer the provider has committed
    pc,            \* per thread: position inside arena_concurrent_alloc
    size,          \* per thread: argument size
    align,         \* per thread: argument align
    offset,        \* per thread: local offset
    committed_l,   \* per thread: local committed (expected value of the CAS)
    to_commit,     \* per thread: local to_commit
    id,            \* per thread: rank of this call's fetch_add among all calls
    commit_failed, \* per thread: a VirtualAlloc(MEM_COMMIT) of this call failed
    ninits,        \* history: calls of arena_init after the first
    committed0,    \* history: value of Arena::committed when arena_init returned
    ncalls,        \* history: calls issued so far (fetch_add order)
    nclears,       \* history: clears done since arena_init
    clearedAt,     \* history: calls issued before the last clear
    returned       \* history: calls that returned since the last clear

vars == << length, curr_offset, committed, backed, pc, size, align, offset,
           committed_l, to_commit, id, commit_failed, ninits, committed0,
           ncalls, nclears, clearedAt, returned >>

shared == << length, curr_offset, committed, backed >>

\* Local values of a thread that is inside a call.
aligned_size(t) == align_forward(size[t], align[t])

allocated(t) == offset[t] + size[t]

\* ------------------------------------------------------------------------
\* The address-space provider (VirtualAlloc)
\* ------------------------------------------------------------------------
\* Pages holding a byte of [lo, lo + n).
PagesOf(lo, n) == (lo \div PAGE_SIZE) .. ((lo + n - 1) \div PAGE_SIZE)

\* MEM_RESERVE rounds the region up to whole pages.
ReservedPages(len) == 0 .. (((len + PAGE_SIZE - 1) \div PAGE_SIZE) - 1)

VirtualAllocInRange(lo, n, len) == PagesOf(lo, n) \subseteq ReservedPages(len)

\* MEM_COMMIT of [lo, lo + n): commits every page of the range, or fails
\* and commits nothing when the range leaves the reserved region.
VirtualAllocCommit(pages, lo, n, len) ==
    IF VirtualAllocInRange(lo, n, len)
    THEN pages \cup PagesOf(lo, n)
    ELSE pages

\* ------------------------------------------------------------------------
\* Initial state: main() has run `new Arena` and arena_init(a, length).
\* ------------------------------------------------------------------------
Init ==
    /\ length \in Lengths
    /\ curr_offset = 0
    /\ committed \in IndeterminateCommitted
    /\ committed0 = committed
    /\ backed = {}
    /\ pc = [t \in Threads |-> "idle"]
    /\ size = [t \in Threads |-> 0]
    /\ align = [t \in Threads |-> 0]
    /\ offset = [t \in Threads |-> 0]
    /\ committed_l = [t \in Threads |-> 0]
    /\ to_commit = [t \in Threads |-> 0]
    /\ id = [t \in Threads |-> 0]
    /\ commit_failed = [t \in Threads |-> FALSE]
    /\ ninits = 0
    /\ ncalls = 0
    /\ nclears = 0
    /\ clearedAt = 0
    /\ returned = {}

\* ------------------------------------------------------------------------
\* arena_concurrent_alloc, one shared access per action
\* ------------------------------------------------------------------------
CapacityExceededOffByOne(alloc_end, len) == alloc_end >= len

\* if (allocated > a->length)
CapacityExceeded(alloc_end, len) == alloc_end > len

\* while (true) { if (allocated <= committed) break; ...
LoopTest(alloc_end, c) == IF alloc_end <= c THEN "ret" ELSE "commit"

FetchAddResultNew(old, delta) == old + delta

\* fetch_add returns the value held before the addition.
FetchAddResult(old, delta) == old

\* Lines 46-50: align_forward, fetch_add, the capacity test.
AllocFetchAdd(t, sz, al) ==
    /\ pc[t] = "idle"
    /\ ncalls < MaxCalls
    /\ size' = [size EXCEPT ![t] = sz]
    /\ align' = [align EXCEPT ![t] = al]
    /\ offset' = [offset EXCEPT ![t] =
                    FetchAddResult(curr_offset, align_forward(sz, al))]
    /\ curr_offset' = curr_offset + align_forward(sz, al)
    /\ pc' = [pc EXCEPT ![t] =
                IF CapacityExceeded(offset'[t] + sz, length)
                THEN "rollback" ELSE "load"]
    /\ id' = [id EXCEPT ![t] = ncalls + 1]
    /\ ncalls' = ncalls + 1
    /\ UNCHANGED << length, committed, backed, committed_l, to_commit,
                    commit_failed, ninits, committed0, nclears, clearedAt,
                    returned >>

\* What a finished call leaves in the history.
Outcome(t, ok) ==
    [ id |-> id[t], size |-> size[t], align |-> align[t],
      offset |-> offset[t], ok |-> ok ]

Finish(t, ok) ==
    /\ returned' = returned \cup { Outcome(t, ok) }
    /\ pc' = [pc EXCEPT ![t] = "idle"]
    /\ size' = [size EXCEPT ![t] = 0]
    /\ align' = [align EXCEPT ![t] = 0]
    /\ offset' = [offset EXCEPT ![t] = 0]
    /\ committed_l' = [committed_l EXCEPT ![t] = 0]
    /\ to_commit' = [to_commit EXCEPT ![t] = 0]
    /\ id' = [id EXCEPT ![t] = 0]
    /\ commit_failed' = [commit_failed EXCEPT ![t] = FALSE]

FetchSubUnaligned(cur, sz, al) == cur - sz

\* a->curr_offset.fetch_sub(aligned_size): the value it leaves.
FetchSub(cur, sz, al) == cur - align_forward(sz, al)

\* Lines 51-52: fetch_sub and return NULL.
AllocRollback(t) ==
    /\ pc[t] = "rollback"
    /\ curr_offset' = FetchSub(curr_offset, size[t], align[t])
    /\ Finish(t, FALSE)
    /\ UNCHANGED << length, committed, backed, ninits, committed0, ncalls,
                    nclears, clearedAt >>

\* Lines 55-58: committed.load() and the first test of the loop.
AllocLoadCommitted(t) ==
    /\ pc[t] = "load"
    /\ committed_l' = [committed_l EXCEPT ![t] = committed]
    /\ pc' = [pc EXCEPT ![t] = LoopTest(allocated(t), committed)]
    /\ UNCHANGED << shared, size, align, offset, to_commit, id,
                    commit_failed, ninits, committed0, ncalls, nclears,
                    clearedAt, returned >>

\* Lines 59-61: commit_size and the provider's commit (result ignored).
AllocCommit(t) ==
    /\ pc[t] = "commit"
    /\ to_commit' = [to_commit EXCEPT ![t] =
                        commit_size(committed_l[t], allocated(t))]
    /\ backed' = VirtualAllocCommit(backed, committed_l[t],
                                    to_commit'[t], length)
    /\ commit_failed' = [commit_failed EXCEPT ![t] =
                            @ \/ ~VirtualAllocInRange(committed_l[t],
                                                      to_commit'[t], length)]
    /\ pc' = [pc EXCEPT ![t] = "cas"]
    /\ UNCHANGED << length, curr_offset, committed, size, align, offset,
                    committed_l, id, ninits, committed0, ncalls, nclears,
                    clearedAt, returned >>

\* Lines 59-61 when the provider has no memory left: VirtualAlloc returns
\* NULL and commits nothing; the code does not look at the result.
AllocCommitFails(t) ==
    /\ pc[t] = "commit"
    /\ to_commit' = [to_commit EXCEPT ![t] =
                        commit_size(committed_l[t], allocated(t))]
    /\ commit_failed' = [commit_failed EXCEPT ![t] = TRUE]
    /\ pc' = [pc EXCEPT ![t] = "cas"]
    /\ UNCHANGED << shared, size, align, offset, committed_l, id, ninits,
                    committed0, ncalls, nclears, clearedAt, returned >>

\* The value the successful compare_exchange_weak stores (line 63).
CasDesired(c, tc) == tc

\* Line 63-64: compare_exchange_weak succeeds.
AllocCasSuccess(t) ==
    /\ pc[t] = "cas"
    /\ committed = committed_l[t]
    /\ committed' = CasDesired(committed_l[t], to_commit[t])
    /\ pc' = [pc EXCEPT ![t] = "ret"]
    /\ UNCHANGED << length, curr_offset, backed, size, align, offset,
                    committed_l, to_commit, id, commit_failed, ninits,
                    committed0, ncalls, nclears, clearedAt, returned >>

AllocCasFailBlind(t) ==
    /\ pc[t] = "cas"
    /\ pc' = [pc EXCEPT ![t] = "commit"]
    /\ UNCHANGED << shared, size, align, offset, committed_l, to_commit, id,
                    commit_failed, ninits, committed0, ncalls, nclears,
                    clearedAt, returned >>

\* Line 63, 57-58: compare_exchange_weak fails (another value is stored, or
\* spuriously), reloads the expected value, and the loop tests again.
AllocCasFail(t) ==
    /\ pc[t] = "cas"
    /\ committed_l' = [committed_l EXCEPT ![t] = committed]
    /\ pc' = [pc EXCEPT ![t] = LoopTest(allocated(t), committed)]
    /\ UNCHANGED << shared, size, align, offset, to_commit, id,
                    commit_failed, ninits, committed0, ncalls, nclears,
                    clearedAt, returned >>

\* Line 68: return &a->buffer[offset].
AllocReturn(t) ==
    /\ pc[t] = "ret"
    /\ Finish(t, TRUE)
    /\ UNCHANGED << shared, ninits, committed0, ncalls, nclears, clearedAt >>

\* ------------------------------------------------------------------------
\* arena_clear: the caller runs it only while no alloc is in flight.
\* ------------------------------------------------------------------------
arena_clear_decommit ==
    /\ \A t \in Threads : pc[t] = "idle"
    /\ nclears < MaxClears
    /\ curr_offset' = 0
    /\ committed' = 0
    /\ backed' = {}
    /\ nclears' = nclears + 1
    /\ clearedAt' = ncalls
    /\ returned' = {}
    /\ UNCHANGED << length, pc, size, align, offset, committed_l, to_commit,
                    id, commit_failed, ninits, committed0, ncalls >>

ClearedOffsetKept(cur) == cur

ClearedOffset(cur) == 0

arena_clear ==
    /\ \A t \in Threads : pc[t] = "idle"
    /\ nclears < MaxClears
    /\ curr_offset' = ClearedOffset(curr_offset)
    /\ nclears' = nclears + 1
    /\ clearedAt' = ncalls
    /\ returned' = {}
    /\ UNCHANGED << length, committed, backed, pc, size, align, offset,
                    committed_l, to_commit, id, commit_failed, ninits,
                    committed0, ncalls >>

\* ------------------------------------------------------------------------
\* arena_init on an Arena that was used before: a fresh reservation with no
\* page committed, curr_offset stored, committed not assigned.  Like
\* arena_clear it runs only while no alloc is in flight.
\* ------------------------------------------------------------------------
arena_init ==
    /\ \A t \in Threads : pc[t] = "idle"
    /\ ninits < MaxInits
    /\ backed' = {}
    /\ length' = length
    /\ curr_offset' = 0
    /\ committed' = committed
    /\ committed0' = committed
    /\ ninits' = ninits + 1
    /\ nclears' = 0
    /\ returned' = {}
    /\ UNCHANGED << pc, size, align, offset, committed_l, to_commit, id,
                    commit_failed, ncalls, clearedAt >>

Next ==
    \/ \E t \in Threads : \E r \in Requests(length) :
          AllocFetchAdd(t, r[1], r[2])
    \/ \E t \in Threads : AllocRollback(t)
    \/ \E t \in Threads : AllocLoadCommitted(t)
    \/ \E t \in Threads : AllocCommit(t)
    \/ \E t \in Threads : AllocCasSuccess(t)
    \/ \E t \in Threads : AllocCasFail(t)
    \/ \E t \in Threads : AllocReturn(t)
    \/ arena_clear

Spec == Init /\ [][Next]_vars

\* The arena shorter than a page, Arena::committed zero after arena_init.
InitSmall == Init /\ length = SmallLength /\ committed = 0

SpecSmall == InitSmall /\ [][Next]_vars

\* The arena some callers ask too much of, Arena::committed zero after
\* arena_init.
InitRace == Init /\ length = RaceLength /\ committed = 0

SpecRace == InitRace /\ [][Next]_vars

\* The arena its callers request whole, Arena::committed zero after arena_init.
InitWhole == Init /\ length = WholeLength /\ committed = 0

SpecWhole == InitWhole /\ [][Next]_vars

\* The arena of several pages, Arena::committed indeterminate after arena_init.
InitPaged == Init /\ length = PagedLength

SpecPaged == InitPaged /\ [][Next]_vars

\* One caller at a time: a call starts only when no call is in flight.
NextSeq ==
    \/ \E t \in Threads : \E r \in Requests(length) :
          /\ \A u \in Threads : pc[u] = "idle"
          /\ AllocFetchAdd(t, r[1], r[2])
    \/ \E t \in Threads : AllocRollback(t)
    \/ \E t \in Threads : AllocLoadCommitted(t)
    \/ \E t \in Threads : AllocCommit(t)
    \/ \E t \in Threads : AllocCasSuccess(t)
    \/ \E t \in Threads : AllocCasFail(t)
    \/ \E t \in Threads : AllocReturn(t)
    \/ arena_clear

InitSeq ==
    Init /\ length \in {SmallLength, ScenarioLength} /\ committed = 0

SpecSeq == InitSeq /\ [][NextSeq]_vars

\* The provider may also run out of memory on a commit.
NextFaulty ==
    \/ Next
    \/ \E t \in Threads : AllocCommitFails(t)

SpecFaulty == InitSmall /\ [][NextFaulty]_vars

\* The owner may initialise the Arena again between allocation phases.
NextReinit ==
    \/ Next
    \/ arena_init

SpecReinit == InitSmall /\ [][NextReinit]_vars

\* A thread inside a call takes its next step.
Continue(t) ==
    \/ AllocRollback(t)
    \/ AllocLoadCommitted(t)
    \/ AllocCommit(t)
    \/ AllocCasSuccess(t)
    \/ AllocCasFail(t)
    \/ AllocReturn(t)

\* Fair scheduling: a thread inside a call keeps running, and a
\* compare_exchange_weak whose expected value is the stored one again and
\* again does not fail every time (it fails spuriously only now and then).
Fairness ==
    \A t \in Threads : WF_vars(Continue(t)) /\ SF_vars(AllocCasSuccess(t))

\* The arena of three pages, Arena::committed zero after arena_init.
InitLive == Init /\ length = LiveLength /\ committed = 0

SpecLive == InitLive /\ [][Next]_vars /\ Fairness

TypeOK ==
    /\ length \in Lengths
    /\ curr_offset \in Nat
    /\ committed \in Nat
    /\ backed \subseteq ReservedPages(length)
    /\ pc \in [Threads -> {"idle", "rollback", "load", "commit", "cas", "ret"}]

\* ------------------------------------------------------------------------
\* Vocabulary of the properties
\* ------------------------------------------------------------------------
Idle == \A t \in Threads : pc[t] = "idle"

InFlight == { t \in Threads : pc[t] # "idle" }

Succeeded == { r \in returned : r.ok }

Failed == { r \in returned : ~r.ok }

\* [o1, o1 + s1) and [o2, o2 + s2) share a byte.
Overlap(o1, s1, o2, s2) == o1 < o2 + s2 /\ o2 < o1 + s1

PairwiseDisjoint(S) ==
    \A r1, r2 \in S :
        r1.id # r2.id => ~Overlap(r1.offset, r1.size, r2.offset, r2.size)

RECURSIVE SumAligned(_)
SumAligned(S) ==
    IF S = {} THEN 0
    ELSE LET r == CHOOSE x \in S : TRUE
         IN  align_forward(r.size, r.align) + SumAligned(S \ {r})

\* Every call issued since the last clear, returned or still running.
Issued ==
    returned \cup { [ id |-> id[t], size |-> size[t], align |-> align[t],
                      offset |-> offset[t], ok |-> pc[t] # "rollback" ]
                    : t \in InFlight }

\* ------------------------------------------------------------------------
\* C1: no two successful calls that no arena_clear separates return
\* overlapping byte ranges [offset, offset + size).
\* ------------------------------------------------------------------------
C1_NoOverlap == PairwiseDisjoint(Succeeded)

\* ------------------------------------------------------------------------
\* C2: on a freshly initialised arena, when the aligned sizes of all the
\* calls issued sum to at most length, no call fails and the ranges handed
\* out are pairwise disjoint.
\* ------------------------------------------------------------------------
C2_AllFit ==
    (nclears = 0 /\ SumAligned(Issued) <= length) =>
        /\ \A r \in Issued : r.ok
        /\ PairwiseDisjoint(Issued)

C2_Witness ==
    /\ nclears = 0
    /\ Idle
    /\ SumAligned(returned) = length
    /\ Cardinality(Succeeded) >= 2
    /\ \E r1, r2 \in Succeeded : r1.align # r2.align

\* ------------------------------------------------------------------------
\* C3: when a call on an arena whose committed counter started at 0 is about
\* to return a range, the committed counter is at least offset + size.
\* ------------------------------------------------------------------------
C3_CounterCoversReturn ==
    \A t \in Threads :
        (committed0 = 0 /\ pc[t] = "ret") => committed >= allocated(t)

\* ------------------------------------------------------------------------
\* C4: when a call on an arena whose committed counter started at 0 is about
\* to return a range, the provider has committed every page of the range.
\* ------------------------------------------------------------------------
C4_BackedAtReturn ==
    \A t \in Threads :
        (committed0 = 0 /\ pc[t] = "ret") =>
            PagesOf(offset[t], size[t]) \subseteq backed

\* A call returns a range that lies beyond the committed counter, after
\* another thread's compare-and-swap won the race for the counter.
C4_Witness ==
    \E t \in Threads :
        /\ committed0 = 0
        /\ pc[t] = "ret"
        /\ offset[t] >= PAGE_SIZE
        /\ committed < allocated(t)
        /\ \E u \in Threads \ {t} : pc[u] \in {"commit", "cas", "ret"}

\* ------------------------------------------------------------------------
\* C5: every successful call with a power-of-two align returns an offset
\* that is a multiple of align.
\* ------------------------------------------------------------------------
C5_AlignedOffset ==
    \A r \in Succeeded : is_power_of_two(r.align) => r.offset % r.align = 0

\* ------------------------------------------------------------------------
\* C6: a call that finds curr_offset + round_up(size, align) > length fails,
\* and its rollback puts curr_offset back to the value it found.
\* ------------------------------------------------------------------------
C6_ExceedingCallFails ==
    /\ \A r \in Issued :
          r.offset + align_forward(r.size, r.align) > length => ~r.ok
    /\ \A t \in Threads :
          (pc[t] = "rollback" /\ InFlight = {t}) =>
              curr_offset - aligned_size(t) = offset[t]

\* ------------------------------------------------------------------------
\* C7: 0 <= curr_offset <= length; stated for the states in which no call
\* is running, where no speculative addition is pending.
\* ------------------------------------------------------------------------
C7_OffsetWithinLength == Idle => (0 <= curr_offset /\ curr_offset <= length)

\* ------------------------------------------------------------------------
\* C8: the first call after an arena_clear, with size <= length and a
\* power-of-two align, succeeds and returns offset 0.
\* ------------------------------------------------------------------------
FirstAfterClear(r) == nclears > 0 /\ r.id = clearedAt + 1

C8_ClearThenZero ==
    \A r \in Issued :
        (FirstAfterClear(r) /\ r.size <= length /\ is_power_of_two(r.align)) =>
            (r.ok /\ r.offset = 0)

\* The call after the clear has returned, and the clear followed a history
\* of a failed call and a successful one.
C8_Witness ==
    \E r \in Succeeded :
        /\ FirstAfterClear(r)
        /\ r.offset = 0
        /\ clearedAt >= 2
        /\ curr_offset > 0

\* ------------------------------------------------------------------------
\* C9: on a fresh arena on which every call asks for size = length, at most
\* one call succeeds, and once all have returned exactly one has.
\* ------------------------------------------------------------------------
C9_WholeOnce ==
    (nclears = 0 /\ \A r \in Issued : r.size = length) =>
        /\ Cardinality({ r \in Issued : r.ok }) <= 1
        /\ (Idle /\ ncalls >= 1) => Cardinality(Succeeded) = 1

C9_Witness ==
    /\ nclears = 0
    /\ Idle
    /\ ncalls >= 3
    /\ \A r \in returned : r.size = length
    /\ Cardinality(Succeeded) = 1
    /\ Cardinality(Failed) >= 2

\* ------------------------------------------------------------------------
\* C10: when all calls use one (size, align) and together ask for more than
\* length, once all have returned the aligned sizes of the successful calls
\* sum to at most length and exactly length \div round_up(size, align) calls
\* have succeeded.
\* ------------------------------------------------------------------------
C10_UniformCount ==
    (/\ nclears = 0
     /\ Idle
     /\ \A r1, r2 \in returned : r1.size = r2.size /\ r1.align = r2.align
     /\ SumAligned(returned) > length) =>
        /\ SumAligned(Succeeded) <= length
        /\ \A r \in returned :
              Cardinality(Succeeded) =
                  length \div align_forward(r.size, r.align)

\* ------------------------------------------------------------------------
\* C11: with one caller at a time on a freshly initialised arena, every
\* successful call returns the sum of round_up(size, align) over the earlier
\* successful calls.
\* ------------------------------------------------------------------------
\* size rounded up to a multiple of align, by division.
RoundUp(sz, al) == ((sz + al - 1) \div al) * al

RECURSIVE SumRoundUp(_)
SumRoundUp(S) ==
    IF S = {} THEN 0
    ELSE LET r == CHOOSE x \in S : TRUE
         IN  RoundUp(r.size, r.align) + SumRoundUp(S \ {r})

C11_OffsetIsSum ==
    nclears = 0 =>
        \A r \in Issued :
            r.ok => r.offset = SumRoundUp({ q \in Issued : q.ok /\ q.id < r.id })

\* alloc(100, 8) returned offset 0 and the following alloc(50, 8) offset 104
\* on the arena of 4096 bytes.
C11_Witness ==
    /\ length = ScenarioLength
    /\ nclears = 0
    /\ \E r1, r2 \in Succeeded :
          /\ r1.id = 1 /\ r1.size = 100 /\ r1.offset = 0
          /\ r2.id = 2 /\ r2.size = 50 /\ r2.offset = 104

\* ------------------------------------------------------------------------
\* C12: a call never returns a range after a commit request that it issued
\* for that range has failed.
\* ------------------------------------------------------------------------
C12_NoReturnAfterFailedCommit ==
    \A t \in Threads : pc[t] = "ret" => ~commit_failed[t]

\* ------------------------------------------------------------------------
\* C13: on an arena whose committed counter started at 0, no step lowers
\* the counter, and every successful compare-and-swap moves it from the
\* value read, c, to c + to_commit.
\* ------------------------------------------------------------------------
C13_CommittedAdvances ==
    [][ committed0 = 0 =>
          /\ committed' >= committed
          /\ \A t \in Threads :
                AllocCasSuccess(t) =>
                    committed' = committed_l[t] + to_commit[t]
      ]_vars

\* ------------------------------------------------------------------------
\* C14: 0 <= committed <= length in every reachable state, for an arena
\* whose committed counter started at 0.
\* ------------------------------------------------------------------------
C14_CommittedWithinLength ==
    committed0 = 0 => (0 <= committed /\ committed <= length)

\* ------------------------------------------------------------------------
\* C15: the provider has committed every page that holds a byte of
\* [0, committed).
\* ------------------------------------------------------------------------
C15_CounterWithinBacked == PagesOf(0, committed) \subseteq backed

\* C15 for an arena whose committed counter is 0 when arena_init returns.
C15_FromZero == committed0 = 0 => C15_CounterWithinBacked

\* ------------------------------------------------------------------------
\* C16: when arena_init completes, curr_offset = 0 and committed = 0.
\* ------------------------------------------------------------------------
C16_InitZeroes ==
    [][ arena_init => (curr_offset' = 0 /\ committed' = 0) ]_vars

\* ------------------------------------------------------------------------
\* C17: arena_clear sets curr_offset to 0 and leaves committed, length and
\* the pages the provider has committed as they are.
\* ------------------------------------------------------------------------
C17_ClearFrame ==
    [][ arena_clear =>
            /\ curr_offset' = 0
            /\ committed' = committed
            /\ length' = length
            /\ backed' = backed ]_vars

\* The clear has just run on an arena with committed pages.
C17_Witness ==
    /\ nclears > 0
    /\ ncalls = clearedAt
    /\ Idle
    /\ curr_offset = 0
    /\ committed > 0
    /\ backed # {}

\* ------------------------------------------------------------------------
\* C18: under fair scheduling every call that has started returns.
\* ------------------------------------------------------------------------
C18_CallsReturn ==
    \A t \in Threads : (pc[t] # "idle") ~> (pc[t] = "idle")

\* A call lost the compare-and-swap to another thread, read the counter
\* again and left the loop.
C18_Witness ==
    \E t \in Threads :
        /\ pc[t] = "ret"
        /\ to_commit[t] > 0
        /\ committed_l[t] > 0

\* ------------------------------------------------------------------------
\* C19: a call whose size fits next to the calls that passed the capacity
\* test so far passes the test itself.
\* ------------------------------------------------------------------------
\* Thread t does its fetch_add in this step.
Starts(t) == pc[t] = "idle" /\ pc'[t] # "idle"

Fits(t) == SumAligned({ r \in Issued : r.ok }) + size'[t] <= length

PendingFailed ==
    { [ id |-> id[t], size |-> size[t], align |-> align[t],
        offset |-> offset[t], ok |-> FALSE ]
      : t \in { u \in Threads : pc[u] = "rollback" } }

C20_Accounting ==
    curr_offset = SumRoundUp({ r \in Issued : r.ok }) + SumRoundUp(PendingFailed)

\* All calls have returned, two of them failed and raced, one succeeded.
C20_Witness ==
    /\ Idle
    /\ Cardinality(Failed) >= 2
    /\ \E f1, f2 \in Failed : f1.id # f2.id /\ f1.offset > f2.offset
    /\ Succeeded # {}
    /\ curr_offset = SumRoundUp(Succeeded)
    /\ curr_offset > 0

====
